---- MODULE Spec2Model ----
(***************************************************************************)
(* Bulls and Cows engine (src/game_logic.py, class BullsAndCowsGame).      *)
(*                                                                         *)
(* A Python str is modelled as a sequence of Unicode code points, a list   *)
(* of ints as a sequence of integers.  Floats that the engine rounds to    *)
(* two decimals are modelled in hundredths (12.3 is 1230).                 *)
(***************************************************************************)
EXTENDS Integers, Sequences, FiniteSets, TLC

VARIABLES secret, attempts, previous_guesses, all_possible_guesses,
          valid_guesses, result, submitted,
          last_call, dialog, feedback_label, guesses_list

vars == <<secret, attempts, previous_guesses, all_possible_guesses,
          valid_guesses, result, submitted,
          last_call, dialog, feedback_label, guesses_list>>

----------------------------------------------------------------------------
(* Program constants *)

\* range(10): the digits a secret is sampled from
Base == 10
\* sample(..., 4), zfill(4), len(guess) != 4, bulls == 4
CodeLen == 4
\* range(10000) in generate_possible_guesses
Limit == 10000

(* Bounds of the model *)

\* process_guess calls explored per game (between construction/resets)
MaxCalls == 2
\* digits 0..ScoreDigits-1 the codes explored by ScoreSpec are made of
ScoreDigits == 5

----------------------------------------------------------------------------
(* Python built-ins used by the engine *)

Range(s) == {s[i] : i \in 1..Len(s)}

\* ord("0")
Ord0 == 48

\* The code points int() accepts as a one-character string: the decimal
\* digits (category Nd) of Unicode 14.0, as the runs <<first, last>>.  Every
\* run starts at a digit zero and holds whole decades of digits.
DecimalRanges ==
    { <<48, 57>>, <<1632, 1641>>, <<1776, 1785>>, <<1984, 1993>>,
      <<2406, 2415>>, <<2534, 2543>>, <<2662, 2671>>, <<2790, 2799>>,
      <<2918, 2927>>, <<3046, 3055>>, <<3174, 3183>>, <<3302, 3311>>,
      <<3430, 3439>>, <<3558, 3567>>, <<3664, 3673>>, <<3792, 3801>>,
      <<3872, 3881>>, <<4160, 4169>>, <<4240, 4249>>, <<6112, 6121>>,
      <<6160, 6169>>, <<6470, 6479>>, <<6608, 6617>>, <<6784, 6793>>,
      <<6800, 6809>>, <<6992, 7001>>, <<7088, 7097>>, <<7232, 7241>>,
      <<7248, 7257>>, <<42528, 42537>>, <<43216, 43225>>, <<43264, 43273>>,
      <<43472, 43481>>, <<43504, 43513>>, <<43600, 43609>>, <<44016, 44025>>,
      <<65296, 65305>>, <<66720, 66729>>, <<68912, 68921>>, <<69734, 69743>>,
      <<69872, 69881>>, <<69942, 69951>>, <<70096, 70105>>, <<70384, 70393>>,
      <<70736, 70745>>, <<70864, 70873>>, <<71248, 71257>>, <<71360, 71369>>,
      <<71472, 71481>>, <<71904, 71913>>, <<72016, 72025>>, <<72784, 72793>>,
      <<73040, 73049>>, <<73120, 73129>>, <<92768, 92777>>, <<92864, 92873>>,
      <<93008, 93017>>, <<120782, 120831>>, <<123200, 123209>>, <<123632, 123641>>,
      <<125264, 125273>>, <<130032, 130041>> }

\* The code points str.isdigit() accepts and int() rejects (superscripts,
\* circled digits and the like), as the runs <<first, last>>
DigitOnlyRanges ==
    { <<178, 179>>, <<185, 185>>, <<4969, 4977>>, <<6618, 6618>>,
      <<8304, 8304>>, <<8308, 8313>>, <<8320, 8329>>, <<9312, 9320>>,
      <<9332, 9340>>, <<9352, 9360>>, <<9450, 9450>>, <<9461, 9469>>,
      <<9471, 9471>>, <<10102, 10110>>, <<10112, 10120>>, <<10122, 10130>>,
      <<68160, 68163>>, <<69216, 69224>>, <<69714, 69722>>, <<127232, 127242>> }

\* int(c) does not raise for the one-character string c
CharIsDecimal(c) == \E r \in DecimalRanges : c \in r[1]..r[2]

\* c.isdigit() for the one-character string c
CharIsDigit(c) == CharIsDecimal(c) \/ \E r \in DigitOnlyRanges : c \in r[1]..r[2]

\* str.isdigit(): non-empty and every character is a digit
IsDigit(s) == Len(s) > 0 /\ \A i \in 1..Len(s) : CharIsDigit(s[i])

\* int(c) of a one-character string (defined when CharIsDecimal(c))
IntOfChar(c) ==
    LET r == CHOOSE r \in DecimalRanges : c \in r[1]..r[2]
    IN  (c - r[1]) % 10

\* str(i) for i >= 0, as code points
RECURSIVE Str(_)
Str(i) == IF i < 10 THEN <<Ord0 + i>> ELSE Append(Str(i \div 10), Ord0 + (i % 10))

\* s.zfill(w) for a string of digits
RECURSIVE Zfill(_, _)
Zfill(s, w) == IF Len(s) >= w THEN s ELSE Zfill(<<Ord0>> \o s, w)

\* list(map(int, s))
MapInt(s) == [i \in 1..Len(s) |-> IntOfChar(s[i])]

----------------------------------------------------------------------------
(* math.log2 and round(., 2), in hundredths.                               *)
(* round(log2(n), 2) * 100 = e  iff  2^(2e-1) <= n^200 < 2^(2e+1), that is *)
(* e = bitlength(n^200) \div 2.  n^200 is computed as mantissa * 2^exp     *)
(* with a 28-bit truncated mantissa held in two 14-bit limbs.              *)

Limb == 16384
MantLo == 134217728
MantHi == 268435456

\* floor(a * b / 2^27) for mantissas a, b in [2^27, 2^28), up to truncation
MulMant(a, b) ==
    LET h1 == a \div Limb  l1 == a % Limb
        h2 == b \div Limb  l2 == b % Limb
        t  == (h1 * l2 + l1 * h2) + ((l1 * l2) \div Limb)
    IN  (h1 * h2) * 2 + (t \div 8192)

\* product of two floats <<mantissa, exponent>>, renormalised
MulFloat(x, y) ==
    LET m == MulMant(x[1], y[1])
    IN  IF m >= MantHi THEN <<m \div 2, x[2] + y[2] + 1>> ELSE <<m, x[2] + y[2]>>

\* n >= 1 as <<mantissa, exponent>> with n = mantissa * 2^(exponent - 27)
RECURSIVE Normalise(_, _)
Normalise(m, e) == IF m >= MantLo THEN <<m, e>> ELSE Normalise(m * 2, e - 1)

RECURSIVE PowFloat(_, _)
PowFloat(x, k) ==
    IF k = 1 THEN x
    ELSE LET h == PowFloat(x, k \div 2)
             s == MulFloat(h, h)
         IN  IF k % 2 = 0 THEN s ELSE MulFloat(s, x)

\* round(math.log2(n), 2) in hundredths, n >= 1
Log2Hundredths(n) == (PowFloat(Normalise(n, 27), 200)[2] + 1) \div 2

----------------------------------------------------------------------------
(* Explored inputs *)

\* Secrets explored, out of the draws sample(range(10), 4) can return
SecretChoices == {<<1, 2, 3, 4>>, <<0, 1, 2, 3>>, <<5, 6, 7, 8>>}

\* Raw guess strings explored: "1234", "4321", "0123", "5678", "1235",
\* "123", "12a3", "1123", "12345", "12(U+00B2)4", Arabic-Indic "1234",
\* Arabic-Indic "1" followed by "123"
GuessChoices ==
    { <<49, 50, 51, 52>>, <<52, 51, 50, 49>>, <<48, 49, 50, 51>>,
      <<53, 54, 55, 56>>, <<49, 50, 51, 53>>,
      <<49, 50, 51>>, <<49, 50, 97, 51>>, <<49, 49, 50, 51>>,
      <<49, 50, 51, 52, 53>>,
      <<49, 50, 178, 52>>, <<1633, 1634, 1635, 1636>>, <<1633, 49, 50, 51>> }

----------------------------------------------------------------------------
(* BullsAndCowsGame *)

\* generate_possible_guesses
GeneratePossibleGuesses ==
    LET all  == [k \in 1..Limit |-> k - 1]
        keep == SelectSeq(all, LAMBDA i : Cardinality(Range(Str(i))) = CodeLen)
    IN  [k \in 1..Len(keep) |-> MapInt(Zfill(Str(keep[k]), CodeLen))]

\* Bulls counting every shared digit, whatever its position
BullsAnyPosition(sec, guess) == Cardinality(Range(sec) \cap Range(guess))

\* Bulls zipping the secret from its second digit: zip(secret[1:], guess)
BullsShifted(sec, guess) ==
    LET n == IF Len(sec) - 1 < Len(guess) THEN Len(sec) - 1 ELSE Len(guess)
    IN  Cardinality({i \in 1..n : sec[i + 1] = guess[i]})

\* sum(s == g for s, g in zip(secret, guess))
Bulls(sec, guess) ==
    LET n == IF Len(sec) < Len(guess) THEN Len(sec) ELSE Len(guess)
    IN  Cardinality({i \in 1..n : sec[i] = guess[i]})

\* Cows without the bulls taken off
CowsWithBulls(sec, guess, bulls) == Cardinality(Range(sec) \cap Range(guess))

\* len(set(secret) & set(guess)) - bulls
Cows(sec, guess, bulls) == Cardinality(Range(sec) \cap Range(guess)) - bulls

\* calculate_bulls_and_cows, with self.secret passed as sec
CalculateBullsAndCows(sec, guess) ==
    LET bulls == Bulls(sec, guess)
    IN  <<bulls, Cows(sec, guess, bulls)>>

\* update_valid_guesses: the new value of valid_guesses
UpdateValidGuesses(guess, bulls, cows) ==
    SelectSeq(all_possible_guesses,
              LAMBDA valid_guess : CalculateBullsAndCows(secret, valid_guess) = <<bulls, cows>>)

\* calculate_entropy on a list vg, in hundredths
CalculateEntropy(vg) ==
    LET remaining_possibilities == Len(vg)
    IN  IF remaining_possibilities > 0 THEN Log2Hundredths(remaining_possibilities) ELSE 0

\* calculate_mutual_information with valid_guesses = vg, in hundredths
CalculateMutualInformation(previous_entropy, vg) == previous_entropy - CalculateEntropy(vg)

\* Return values of process_guess
NoneResult == [type |-> "None", value |-> <<>>]
InvalidInput == [type |-> "str", value |-> <<"Invalid Input: Enter 4 unique digits!">>]
Congratulations(n) ==
    [type |-> "str",
     value |-> <<"Congratulations! You guessed the number in ", n, " attempts!">>]
Feedback(bulls, cows, mutual_information, entropy) ==
    [type |-> "tuple", value |-> <<bulls, cows, mutual_information, entropy>>]
ValueError == [type |-> "ValueError", value |-> <<>>]

\* the condition of the early return of process_guess
ValidationFails(guess) ==
    Len(guess) # CodeLen \/ ~IsDigit(guess) \/ Cardinality(Range(guess)) # CodeLen

\* list(map(int, guess)) raises ValueError
ConversionRaises(guess) == \E i \in 1..Len(guess) : ~CharIsDecimal(guess[i])

\* The early return taken after the attempt was counted
RejectedCounted ==
    /\ result' = InvalidInput
    /\ attempts' = attempts + 1
    /\ UNCHANGED <<secret, previous_guesses, all_possible_guesses, valid_guesses>>

\* process_guess: the early return
Rejected ==
    /\ result' = InvalidInput
    /\ UNCHANGED <<secret, attempts, previous_guesses, all_possible_guesses, valid_guesses>>

\* process_guess: int() raises before any assignment
Raised ==
    /\ result' = ValueError
    /\ UNCHANGED <<secret, attempts, previous_guesses, all_possible_guesses, valid_guesses>>

\* The increment left out
IncrementAttemptsSkipped(a) == a

\* self.attempts += 1
IncrementAttempts(a) == a + 1

\* The body filtering in place the list that valid_guesses shares with
\* all_possible_guesses since __init__ or reset_game
ScoredInPlace(guess) ==
    LET fb == CalculateBullsAndCows(secret, guess)
        previous_entropy == CalculateEntropy(valid_guesses)
        updated == UpdateValidGuesses(guess, fb[1], fb[2])
    IN  /\ attempts' = IncrementAttempts(attempts)
        /\ valid_guesses' = updated
        /\ all_possible_guesses' =
              IF valid_guesses = all_possible_guesses THEN updated ELSE all_possible_guesses
        /\ result' = IF fb[1] = CodeLen
                     THEN Congratulations(attempts')
                     ELSE Feedback(fb[1], fb[2],
                                   CalculateMutualInformation(previous_entropy, updated),
                                   CalculateEntropy(updated))
        /\ UNCHANGED <<secret, previous_guesses>>

\* The body taking the "previous" entropy after the filter ran
ScoredSnapshotAfter(guess) ==
    LET fb == CalculateBullsAndCows(secret, guess)
        updated == UpdateValidGuesses(guess, fb[1], fb[2])
        previous_entropy == CalculateEntropy(updated)
    IN  /\ attempts' = IncrementAttempts(attempts)
        /\ valid_guesses' = updated
        /\ result' = IF fb[1] = CodeLen
                     THEN Congratulations(attempts')
                     ELSE Feedback(fb[1], fb[2],
                                   CalculateMutualInformation(previous_entropy, updated),
                                   CalculateEntropy(updated))
        /\ UNCHANGED <<secret, previous_guesses, all_possible_guesses>>

\* process_guess: the body after validation, guess being the list of ints
Scored(guess) ==
    LET fb == CalculateBullsAndCows(secret, guess)
        bulls == fb[1]
        cows == fb[2]
        previous_entropy == CalculateEntropy(valid_guesses)
        updated == UpdateValidGuesses(guess, bulls, cows)
        mutual_information == CalculateMutualInformation(previous_entropy, updated)
        entropy == CalculateEntropy(updated)
    IN  /\ attempts' = IncrementAttempts(attempts)
        /\ valid_guesses' = updated
        /\ result' = IF bulls = CodeLen
                     THEN Congratulations(attempts')
                     ELSE Feedback(bulls, cows, mutual_information, entropy)
        /\ UNCHANGED <<secret, previous_guesses, all_possible_guesses>>

\* process_guess(guess), guess a raw string handed over by the shell
ProcessGuess(guess) ==
    /\ Len(submitted) < MaxCalls
    /\ submitted' = Append(submitted, guess)
    /\ IF ValidationFails(guess) THEN Rejected
       ELSE IF ConversionRaises(guess) THEN Raised
       ELSE Scored(MapInt(guess))

\* reset_game leaving valid_guesses as the last guess filtered it
ResetGameKeepsCandidates(s) ==
    /\ secret' = s
    /\ attempts' = 0
    /\ previous_guesses' = <<>>
    /\ result' = NoneResult
    /\ submitted' = <<>>
    /\ UNCHANGED <<all_possible_guesses, valid_guesses>>

\* reset_game, s being the draw of sample(range(10), 4)
ResetGame(s) ==
    /\ secret' = s
    /\ attempts' = 0
    /\ previous_guesses' = <<>>
    /\ valid_guesses' = all_possible_guesses
    /\ result' = NoneResult
    /\ submitted' = <<>>
    /\ UNCHANGED all_possible_guesses

(* BullsAndCowsGameUI (src/bulls_cows_ui.py).  A text is the sequence of  *)
(* the pieces of its f-string; the empty text "" is <<>>.                 *)

\* no messagebox was opened by the latest callback
NoDialog == [kind |-> "none", title |-> "", message |-> <<>>]
\* messagebox.showerror(title, message)
ShowError(title, message) == [kind |-> "showerror", title |-> title, message |-> message]
\* messagebox.showinfo(title, message)
ShowInfo(title, message) == [kind |-> "showinfo", title |-> title, message |-> message]

\* the text put on feedback_label for the tuple r
FeedbackText(r) ==
    <<"Bulls: ", r[1], ", Cows: ", r[2], ", Mutual Information: ", r[3],
      " | Entropy: ", r[4]>>

\* the line inserted into guesses_list for the tuple r
ListEntry(guess, r) ==
    <<"Guess: ", guess, " | Bulls: ", r[1], " | Cows: ", r[2],
      " | Mutual Information: ", r[3], " | Entropy: ", r[4]>>

\* the win check of the shell, reached on the tuple branch only
WinDialog(bulls, n) ==
    IF bulls = CodeLen
    THEN ShowInfo("Congratulations!", <<"You guessed the number in ", n, " attempts!">>)
    ELSE NoDialog

\* BullsAndCowsGameUI.process_guess after the engine returned r (or raised)
ShowResult(guess, r) ==
    IF r.type = "ValueError"
    THEN /\ dialog' = NoDialog
         /\ UNCHANGED <<feedback_label, guesses_list>>
    ELSE IF r.type = "str"
    THEN /\ dialog' = ShowError("Invalid Input", r.value)
         /\ UNCHANGED <<feedback_label, guesses_list>>
    ELSE /\ feedback_label' = FeedbackText(r.value)
         /\ guesses_list' = Append(guesses_list, ListEntry(guess, r.value))
         /\ dialog' = WinDialog(r.value[1], attempts')

\* BullsAndCowsGameUI.process_guess, guess being input_entry.get()
UIProcessGuess(guess) ==
    /\ ProcessGuess(guess)
    /\ last_call' = "process_guess"
    /\ ShowResult(guess, result')

\* BullsAndCowsGameUI.reset_game
UIResetGame(s) ==
    /\ ResetGame(s)
    /\ last_call' = "reset_game"
    /\ guesses_list' = <<>>
    /\ feedback_label' = <<>>
    /\ dialog' = NoDialog

\* __init__ of the engine, inside that of the shell
Init ==
    /\ secret \in SecretChoices
    /\ attempts = 0
    /\ previous_guesses = <<>>
    /\ all_possible_guesses = GeneratePossibleGuesses
    /\ valid_guesses = all_possible_guesses
    /\ result = NoneResult
    /\ submitted = <<>>
    /\ last_call = "__init__"
    /\ dialog = NoDialog
    /\ feedback_label = <<>>
    /\ guesses_list = <<>>

Guess == \E guess \in GuessChoices : UIProcessGuess(guess)
Reset == \E s \in SecretChoices : UIResetGame(s)

Next == Guess \/ Reset

Spec == Init /\ [][Next]_vars

----------------------------------------------------------------------------
(* calculate_bulls_and_cows on its own: the secret and the guess range over *)
(* every code with distinct digits below ScoreDigits.  The game is as       *)
(* __init__ leaves it; scoring reads self.secret and changes no field.      *)

ScoreCodes ==
    {c \in [1..CodeLen -> 0..(ScoreDigits - 1)] :
        \A i, j \in 1..CodeLen : i # j => c[i] # c[j]}

\* the string a player types for the code c
Typed(c) == [i \in 1..Len(c) |-> Ord0 + c[i]]

ScoreInit ==
    /\ secret \in ScoreCodes
    /\ attempts = 0
    /\ previous_guesses = <<>>
    /\ all_possible_guesses = GeneratePossibleGuesses
    /\ valid_guesses = all_possible_guesses
    /\ result = NoneResult
    /\ submitted = <<>>
    /\ last_call = "__init__"
    /\ dialog = NoDialog
    /\ feedback_label = <<>>
    /\ guesses_list = <<>>

\* bulls, cows = self.calculate_bulls_and_cows(list(map(int, guess)))
ScoreGuess(guess) ==
    /\ submitted = <<>>
    /\ submitted' = <<guess>>
    /\ result' = [type |-> "tuple", value |-> CalculateBullsAndCows(secret, MapInt(guess))]
    /\ UNCHANGED <<secret, attempts, previous_guesses, all_possible_guesses, valid_guesses,
                   last_call, dialog, feedback_label, guesses_list>>

ScoreNext == \E c \in ScoreCodes : ScoreGuess(Typed(c))

ScoreSpec == ScoreInit /\ [][ScoreNext]_vars

----------------------------------------------------------------------------
(* Vocabulary of the properties *)

\* the guess handed to the latest process_guess call
LastGuess == submitted[Len(submitted)]

\* the guess got past validation and conversion, so the body of process_guess ran
Accepted(guess) == ~ValidationFails(guess) /\ ~ConversionRaises(guess)

\* the positions in submitted of the guesses that were accepted
AcceptedCalls == {i \in 1..Len(submitted) : Accepted(submitted[i])}

IsInvalidInput(r) == r.type = "str" /\ Len(r.value) = 1
IsWin(r) == r.type = "str" /\ Len(r.value) = 3
IsFeedback(r) == r.type = "tuple"

\* every ordered sequence of CodeLen pairwise distinct digits below Base
AllCodes ==
    {c \in [1..CodeLen -> 0..(Base - 1)] :
        \A i, j \in 1..CodeLen : i # j => c[i] # c[j]}

\* one of the characters "0".."9"
IsAsciiDigit(c) == c \in Ord0..(Ord0 + 9)

\* exactly CodeLen characters, each one of "0".."9", pairwise distinct
WellFormed(guess) ==
    /\ Len(guess) = CodeLen
    /\ \A i \in 1..Len(guess) : IsAsciiDigit(guess[i])
    /\ \A i, j \in 1..Len(guess) : i # j => guess[i] # guess[j]

----------------------------------------------------------------------------
(* Properties *)

\* C1: in every reachable state, the fresh one included, the secret is a
\* member of valid_guesses.
C1_SecretInValidGuesses == secret \in Range(valid_guesses)

\* C2: a processed guess never makes valid_guesses longer, and the mutual
\* information it reports is never negative.
C2_NeverGrows ==
    [][(Len(submitted') = Len(submitted) + 1 /\ Accepted(submitted'[Len(submitted')]))
         => /\ Len(valid_guesses') <= Len(valid_guesses)
            /\ (IsFeedback(result') => result'.value[3] >= 0)]_vars

\* C3: all_possible_guesses is exactly the set of codes with pairwise distinct
\* digits, those starting with 0 included, so a fresh or reset game has
\* 10*9*8*7 = 5040 valid guesses.
C3_UniverseIsAllCodes ==
    /\ Range(all_possible_guesses) = AllCodes
    /\ Len(all_possible_guesses) = 5040
    /\ (submitted = <<>> => Len(valid_guesses) = 5040)

\* C4: a guess that fails validation gets the validation message back and
\* leaves secret, valid_guesses, attempts and previous_guesses as they were,
\* however often it is repeated.
C4_RejectedChangesNothing ==
    [][\A guess \in GuessChoices :
         (submitted' = Append(submitted, guess) /\ ValidationFails(guess))
            => /\ result' = InvalidInput
               /\ UNCHANGED <<secret, valid_guesses, attempts, previous_guesses,
                              all_possible_guesses>>]_vars

\* C4 witness: the same malformed guess "1123" was submitted twice
C4_Witness ==
    /\ submitted = << <<49, 49, 50, 51>>, <<49, 49, 50, 51>> >>
    /\ result = InvalidInput
    /\ attempts = 0

\* C5: a guess is accepted if and only if it is 4 pairwise distinct characters
\* "0".."9"; every other string gets the validation message and no other
\* failure.
C5_AcceptsExactlyWellFormed ==
    submitted # <<>> =>
        /\ result.type # "ValueError"
        /\ (IsInvalidInput(result) <=> ~WellFormed(LastGuess))

\* C6: an accepted guess wins if and only if it equals the secret digit for
\* digit (bulls = 4, and then cows = 0); the win carries the attempt count,
\* 1 for "1234" as first guess against the secret [1,2,3,4].
C6_WinIffGuessIsSecret ==
    (submitted # <<>> /\ Accepted(LastGuess)) =>
        LET guess == MapInt(LastGuess)
            fb == CalculateBullsAndCows(secret, guess)
        IN  /\ IsWin(result) <=> (\A i \in 1..CodeLen : guess[i] = secret[i])
            /\ IsWin(result) <=> fb[1] = CodeLen
            /\ fb[1] = CodeLen => fb[2] = 0
            /\ (Len(submitted) = 1 /\ IsWin(result)) => result = Congratulations(1)

\* C6 witness: secret [1,2,3,4], first guess "1234", won in 1 attempt
C6_Witness ==
    /\ secret = <<1, 2, 3, 4>>
    /\ submitted = << <<49, 50, 51, 52>> >>
    /\ result = Congratulations(1)

\* C7: attempts is the number of accepted guesses since construction or the
\* latest reset (rejected guesses count for nothing, a reset starts from 0),
\* and a win reports that number.
C7_AttemptsCountAccepted ==
    /\ attempts = Cardinality(AcceptedCalls)
    /\ IsWin(result) => result.value[2] = attempts

\* C7 witness: a rejected guess, then a winning one: 1 attempt out of 2 calls
C7_Witness ==
    /\ Len(submitted) = 2
    /\ ValidationFails(submitted[1])
    /\ IsWin(result)
    /\ attempts = 1

\* C8: previous_guesses holds exactly the accepted guesses, in the order
\* they were submitted, wins included.
C8_HistoryHoldsAccepted ==
    LET accepted == SelectSeq(submitted, Accepted)
    IN  /\ Len(previous_guesses) = Len(accepted)
        /\ \A i \in 1..Len(accepted) :
              previous_guesses[i] \in {accepted[i], MapInt(accepted[i])}

\* C9: the feedback returned for a non-winning guess has bulls in 0..3 and
\* cows in 0..(4 - bulls); scoring any code against the secret gives
\* cows >= 0 and bulls + cows <= 4.
C9_FeedbackInRange ==
    /\ IsFeedback(result) =>
          /\ result.value[1] \in 0..(CodeLen - 1)
          /\ result.value[2] \in 0..(CodeLen - result.value[1])
    /\ \A i \in 1..Len(valid_guesses) :
          LET fb == CalculateBullsAndCows(secret, valid_guesses[i])
          IN  fb[2] >= 0 /\ fb[1] + fb[2] <= CodeLen

\* C9 witness: feedback with 3 bulls and no cow, several candidates left
C9_Witness ==
    /\ IsFeedback(result)
    /\ result.value[1] = 3
    /\ result.value[2] = 0
    /\ Len(valid_guesses) > 1

\* C10: scoring G against the reference R gives the same (bulls, cows) as
\* scoring R against the reference G.
C10_ScoringSymmetric ==
    submitted # <<>> =>
        result.value = CalculateBullsAndCows(MapInt(submitted[1]), secret)

\* C10 witness: "1204" scored against [0,1,2,3]: no bull, three cows
C10_Witness ==
    /\ secret = <<0, 1, 2, 3>>
    /\ submitted = << <<49, 50, 48, 52>> >>
    /\ result.value = <<0, 3>>

\* some accepted guess of this game equalled the secret (it scored 4 bulls)
Won ==
    \E k \in AcceptedCalls :
        \A i \in 1..CodeLen : MapInt(submitted[k])[i] = secret[i]

\* X, taken as the secret, gives the guess the feedback the real secret
\* gave it
IsConsistent(X, guess) ==
    CalculateBullsAndCows(X, guess) = CalculateBullsAndCows(secret, guess)

\* the universe members consistent with the feedback of the guess
ConsistentWith(guess) == {X \in Range(all_possible_guesses) : IsConsistent(X, guess)}

\* C11: after reset_game, whatever the state it was called in, attempts is 0,
\* previous_guesses is empty and valid_guesses is the whole universe, as in
\* a freshly constructed game.
C11_ResetRestoresFresh ==
    last_call = "reset_game" =>
        /\ attempts = 0
        /\ previous_guesses = <<>>
        /\ valid_guesses = all_possible_guesses
        /\ valid_guesses = GeneratePossibleGuesses
        /\ secret \in SecretChoices

\* C11 witness: the game was reset and holds the whole universe again
C11_Witness ==
    /\ last_call = "reset_game"
    /\ attempts = 0
    /\ Len(valid_guesses) = Len(all_possible_guesses)
    /\ submitted = <<>>

\* C12: valid_guesses is never empty, so calculate_entropy never takes its
\* N = 0 branch.
C12_NeverEmpty == Len(valid_guesses) >= 1

\* C13: after an accepted guess G with feedback (b, c), valid_guesses is
\* exactly the universe members X that give (b, c) when G is scored against X
\* as the secret.
C13_FilterByGuessAgainstCandidate ==
    (last_call = "process_guess" /\ Accepted(LastGuess)) =>
        Range(valid_guesses) = ConsistentWith(MapInt(LastGuess))

\* C14: after any accepted guesses of a game, valid_guesses is the set of
\* universe members consistent with the feedback of every one of them.
C14_IntersectionOfAllFeedback ==
    Range(valid_guesses) =
        {X \in Range(all_possible_guesses) :
            \A k \in AcceptedCalls : IsConsistent(X, MapInt(submitted[k]))}

\* C15: once a guess has scored 4 bulls, a further process_guess changes
\* neither attempts nor valid_guesses nor previous_guesses and returns no
\* further outcome; reset_game starts a game that is not won.
C15_WonIsTerminal ==
    [][Won =>
         /\ last_call' = "process_guess" =>
               /\ UNCHANGED <<attempts, valid_guesses, previous_guesses>>
               /\ ~IsFeedback(result') /\ ~IsWin(result')
         /\ last_call' = "reset_game" => (~Won' /\ attempts' = 0)]_vars

\* C16: the secret drawn by __init__ and by reset_game is a member of
\* all_possible_guesses.
C16_SecretInUniverse == secret \in Range(all_possible_guesses)

\* C17: all_possible_guesses keeps the contents __init__ gave it, whatever
\* process_guess and reset_game calls follow.
C17_UniverseNeverModified == all_possible_guesses = GeneratePossibleGuesses

\* C17 witness: two guesses filtered valid_guesses, which started as the
\* same list as all_possible_guesses
C17_Witness ==
    /\ attempts = 2
    /\ Len(valid_guesses) < Len(all_possible_guesses)
    /\ Len(all_possible_guesses) = Len(GeneratePossibleGuesses)

\* C18: the shell opens the "Invalid Input" error dialog for validation
\* failures only; every accepted guess, a winning one included, is put on
\* feedback_label and into guesses_list, and a guess with 4 bulls opens the
\* congratulations dialog.
C18_ShellShowsEveryAcceptedGuess ==
    last_call = "process_guess" =>
        /\ dialog.kind = "showerror" => ValidationFails(LastGuess)
        /\ Len(guesses_list) = Cardinality(AcceptedCalls)
        /\ Accepted(LastGuess) =>
              /\ feedback_label # <<>>
              /\ guesses_list # <<>>
              /\ guesses_list[Len(guesses_list)][2] = LastGuess
        /\ (Accepted(LastGuess) /\ Bulls(secret, MapInt(LastGuess)) = CodeLen) =>
              (dialog.kind = "showinfo" /\ dialog.title = "Congratulations!")

\* C19: for codes with distinct digits, cows is the number of digits of the
\* guess that occur in the secret at another position; "4321" against
\* [1,2,3,4] gives 0 bulls and 4 cows.
C19_CowsAreMisplacedDigits ==
    submitted # <<>> =>
        LET guess == MapInt(submitted[1])
        IN  /\ result.value[2] =
                  Cardinality({i \in 1..CodeLen :
                      \E j \in 1..CodeLen : j # i /\ guess[i] = secret[j]})
            /\ (secret = <<1, 2, 3, 4>> /\ submitted[1] = <<52, 51, 50, 49>>)
                  => result.value = <<0, 4>>

\* C19 witness: "4321" scored against [1,2,3,4]
C19_Witness ==
    /\ secret = <<1, 2, 3, 4>>
    /\ submitted = << <<52, 51, 50, 49>> >>
    /\ result.value = <<0, 4>>

\* C20: the mutual information a guess returns is the entropy of
\* valid_guesses as it was before this guess's filter minus the entropy of
\* valid_guesses after it, and the entropy returned is that of the list
\* after the filter.
C20_EntropySnapshots ==
    [][(last_call' = "process_guess" /\ IsFeedback(result')
          /\ Len(submitted') = Len(submitted) + 1)
         => /\ result'.value[3] =
                  CalculateEntropy(valid_guesses) - CalculateEntropy(valid_guesses')
            /\ result'.value[4] = CalculateEntropy(valid_guesses')]_vars

\* C20 witness: secret [1,2,3,4], "1235" left 23 candidates (4.52 bits), then
\* "5678" left 300 (8.23 bits): mutual information 4.52 - 8.23
C20_Witness ==
    /\ secret = <<1, 2, 3, 4>>
    /\ submitted = << <<49, 50, 51, 53>>, <<53, 54, 55, 56>> >>
    /\ Len(valid_guesses) = 300
    /\ result = Feedback(0, 0, -371, 823)

====
